---- MODULE Spec2Model ----
(***************************************************************************)
(* Inventario Biblioteca UCC (src/app.py): extraction of an inventory code *)
(* from OCR fragments, its validation against the session dataset and its  *)
(* reconciliation with the workbook inventario.xlsx.                       *)
(*                                                                         *)
(* A Python str is modelled as a sequence of one-character strings, so     *)
(* that lower(), replace(), strip(), startswith(), len() and the regular   *)
(* expressions are computed character by character.                        *)
(***************************************************************************)
EXTENDS Integers, Sequences, FiniteSets, TLC

VARIABLES
    disk,               \* inventario.xlsx on disk: the data rows of the sheet (row i is sheet row i+1)
    backup,             \* inventario_backup.xlsx: <<>> when absent, else <<rows>>
    cargado,            \* st.session_state['df'] is not None
    sdf,                \* st.session_state['df']: the column 'codigo' of the session dataset
    camara,             \* st.camera_input: <<>> (no photo) or <<textos>> (the OCR output of the photo)
    lote,               \* st.file_uploader (batch): the OCR outputs of the uploaded images, in order
    manual,             \* st.text_input("Escribe el código:")
    botones,            \* labels of the confirmation buttons created by the last run
    codigos_detectados, \* st.session_state['codigos_detectados'], as the set of its elements
    pasos,              \* what the last run did, one record per code processed, in execution order
    avisos,             \* the messages of the last run that are about no single code (line 211)
    escribible,         \* inventario.xlsx can be written (it is not locked by another program)
    excepcion,          \* the exception that ended the last run, if one left the script uncaught
    nEntrada, nSalida, nSalida2, nPc,      \* normalisation of one fragment (line 49)
    dTextos, dPosibles, dResultado, dPc,   \* one call of detectar_codigos
    vCodigo, vDf, vSalida, vPc             \* one call of validar_codigo

vars == <<disk, backup, cargado, sdf, camara, lote, manual, botones,
          codigos_detectados, pasos, avisos, escribible, excepcion,
          nEntrada, nSalida, nSalida2, nPc, dTextos, dPosibles, dResultado, dPc,
          vCodigo, vDf, vSalida, vPc>>

appVars  == <<disk, backup, cargado, sdf, camara, lote, manual, botones,
              codigos_detectados, pasos, avisos, escribible, excepcion>>
normVars == <<nEntrada, nSalida, nSalida2, nPc>>
detVars  == <<dTextos, dPosibles, dResultado, dPc>>
valVars  == <<vCodigo, vDf, vSalida, vPc>>

-----------------------------------------------------------------------------
(* Bounds of the model *)

\* longest input string of SpecNorm
MaxLen == 4
\* most fragments in one OCR output of SpecDet
MaxTextos == 3
\* most images in one batch upload
MaxLote == 2
\* most rows of the dataset of SpecVal
MaxDf == 2

-----------------------------------------------------------------------------
(* Characters and str methods *)

Minus == <<"a","b","c","d","e","f","g","h","i","j","k","l","m",
           "n","o","p","q","r","s","t","u","v","w","x","y","z">>
Mayus == <<"A","B","C","D","E","F","G","H","I","J","K","L","M",
           "N","O","P","Q","R","S","T","U","V","W","X","Y","Z">>
Digitos == {"0","1","2","3","4","5","6","7","8","9"}
\* the characters str.strip() removes at both ends
Blancos == {" ", "\t", "\n", "\r", "\f"}

lower_c(c) == IF \E i \in 1..Len(Mayus) : Mayus[i] = c
              THEN Minus[CHOOSE i \in 1..Len(Mayus) : Mayus[i] = c] ELSE c
upper_c(c) == IF \E i \in 1..Len(Minus) : Minus[i] = c
              THEN Mayus[CHOOSE i \in 1..Len(Minus) : Minus[i] = c] ELSE c

\* str.lower(), str.upper()
lower(s) == [i \in 1..Len(s) |-> lower_c(s[i])]
upper(s) == [i \in 1..Len(s) |-> upper_c(s[i])]

\* s.replace(c, "") for a one-character c
quitar(s, c) == SelectSeq(s, LAMBDA x : x # c)

RECURSIVE lstrip(_)
lstrip(s) == IF s # <<>> /\ Head(s) \in Blancos THEN lstrip(Tail(s)) ELSE s
RECURSIVE rstrip(_)
rstrip(s) == IF s # <<>> /\ s[Len(s)] \in Blancos
             THEN rstrip(SubSeq(s, 1, Len(s) - 1)) ELSE s
\* str.strip()
strip(s) == rstrip(lstrip(s))

\* frase in s
contiene(s, frase) ==
    \E i \in 1..(Len(s) - Len(frase) + 1) : SubSeq(s, i, i + Len(frase) - 1) = frase

\* the quantifier {6,8} of both regular expressions
MinDigitos == 6
MaxDigitos == 8
\* the length bound of the lenient rule
MinLenLaxo == 7

\* the test of the first letter alone
fullmatch_letra(letra, s) == s # <<>> /\ s[1] = letra

\* re.fullmatch(letra \d{6,8}, s)
fullmatch(letra, s) ==
    /\ Len(s) >= 1 + MinDigitos
    /\ Len(s) <= 1 + MaxDigitos
    /\ s[1] = letra
    /\ \A i \in 2..Len(s) : s[i] \in Digitos

-----------------------------------------------------------------------------
(* detectar_codigos *)

frases_prohibidas == <<
    <<"s","i","s","t","e","m","a","d","e","i","n","f","o","r","m","a","c","i","o","n",
      "b","i","b","l","i","o","g","r","a","f","i","c","o">>,
    <<"s","i","s","t","e","m","a","d","e","i","n","f","o","r","m","a","c","i","o","n">>,
    <<"b","i","b","l","i","o","g","r","a","f","i","c","o">>,
    <<"b","i","b","l","i","o","t","e","c","a">>,
    <<"u","n","i","v","e","r","s","i","d","a","d">>,
    <<"c","o","o","p","e","r","a","t","i","v","a">>,
    <<"c","o","l","o","m","b","i","a">> >>

\* line 49: t.lower().replace(" ", "").replace("-", "").strip()
limpiar(t) == strip(quitar(quitar(lower(t), " "), "-"))

\* the token is compared with the phrases instead of searched for them
prohibido_igual(t_limpio) ==
    \E k \in 1..Len(frases_prohibidas) : t_limpio = frases_prohibidas[k]

\* line 50
prohibido(t_limpio) ==
    \E k \in 1..Len(frases_prohibidas) : contiene(t_limpio, frases_prohibidas[k])

\* the elif of line 54 dropped: only the strict form is kept
es_candidato_estricto(t_limpio) == fullmatch("b", t_limpio)

\* lines 52-55: the token is appended to posibles_codigos
es_candidato(t_limpio) ==
    \/ fullmatch("b", t_limpio)
    \/ (t_limpio # <<>> /\ t_limpio[1] = "b" /\ Len(t_limpio) >= MinLenLaxo)

\* lines 47-55: the list posibles_codigos after the loop
RECURSIVE posibles_codigos(_)
posibles_codigos(textos) ==
    IF textos = <<>> THEN <<>>
    ELSE LET t_limpio == limpiar(Head(textos))
             resto    == posibles_codigos(Tail(textos))
         IN  IF prohibido(t_limpio) THEN resto
             ELSE IF es_candidato(t_limpio) THEN <<upper(t_limpio)>> \o resto
             ELSE resto

\* max with the comparison >=: the last element of greatest length
max_len_ultimo(lista) ==
    lista[CHOOSE i \in 1..Len(lista) :
            /\ \A j \in 1..Len(lista) : Len(lista[j]) <= Len(lista[i])
            /\ \A j \in (i + 1)..Len(lista) : Len(lista[j]) < Len(lista[i])]

\* max(lista, key=len): the first element of greatest length
max_len(lista) ==
    lista[CHOOSE i \in 1..Len(lista) :
            /\ \A j \in 1..Len(lista) : Len(lista[j]) <= Len(lista[i])
            /\ \A j \in 1..(i - 1) : Len(lista[j]) < Len(lista[i])]

\* Python None; no candidate is the empty string, and the callers test truthiness
None == <<>>

detectar_codigos(textos) ==
    IF posibles_codigos(textos) # <<>> THEN max_len(posibles_codigos(textos)) ELSE None

-----------------------------------------------------------------------------
(* The normalisation of line 49 applied to one string, and again to its result *)

Alfabeto == {"B", "b", "1", " ", "-", "\t"}
Cadenas == UNION {[1..k -> Alfabeto] : k \in 0..MaxLen}

AppIdle ==
    /\ disk = <<>> /\ backup = <<>> /\ cargado = FALSE /\ sdf = <<>>
    /\ camara = <<>> /\ lote = <<>> /\ manual = <<>> /\ botones = {}
    /\ codigos_detectados = {} /\ pasos = <<>> /\ avisos = <<>>
    /\ escribible = TRUE /\ excepcion = ""
NormIdle == nEntrada = <<>> /\ nSalida = <<>> /\ nSalida2 = <<>> /\ nPc = "off"
DetIdle  == dTextos = <<>> /\ dPosibles = <<>> /\ dResultado = None /\ dPc = "off"
ValIdle  == vCodigo = <<>> /\ vDf = <<>> /\ vSalida = "" /\ vPc = "off"

InitNorm ==
    /\ nEntrada \in Cadenas
    /\ nSalida = <<>> /\ nSalida2 = <<>> /\ nPc = "inicio"
    /\ AppIdle /\ DetIdle /\ ValIdle

Normalizar ==
    /\ nPc = "inicio"
    /\ nSalida' = limpiar(nEntrada)
    /\ nPc' = "una"
    /\ UNCHANGED <<nEntrada, nSalida2, appVars, detVars, valVars>>

NormalizarOtraVez ==
    /\ nPc = "una"
    /\ nSalida2' = limpiar(nSalida)
    /\ nPc' = "dos"
    /\ UNCHANGED <<nEntrada, nSalida, appVars, detVars, valVars>>

NextNorm == Normalizar \/ NormalizarOtraVez
SpecNorm == InitNorm /\ [][NextNorm]_vars

-----------------------------------------------------------------------------
(* One call of detectar_codigos on the OCR output of one image *)

\* 'b123456'
F_b123456 == <<"b","1","2","3","4","5","6">>
\* 'B12345678'
F_B12345678 == <<"B","1","2","3","4","5","6","7","8">>
\* 'Biblioteca Universidad'
F_BibUni == <<"B","i","b","l","i","o","t","e","c","a"," ","U","n","i","v","e","r","s","i","d","a","d">>
\* 'B1234567'
F_B1234567 == <<"B","1","2","3","4","5","6","7">>
\* 'junk'
F_junk == <<"j","u","n","k">>
\* 'bxxxxxxx'
F_bxxxxxxx == <<"b","x","x","x","x","x","x","x">>
\* 'B-765 4321'
F_Bguion == <<"B","-","7","6","5"," ","4","3","2","1">>
\* 'biblioteca123456789'
F_biblio == <<"b","i","b","l","i","o","t","e","c","a","1","2","3","4","5","6","7","8","9">>
\* 'b12345'
F_b12345 == <<"b","1","2","3","4","5">>
\* 'b1234567890'
F_blargo == <<"b","1","2","3","4","5","6","7","8","9","0">>

Fragmentos == {F_b123456, F_B12345678, F_BibUni, F_B1234567, F_junk, F_bxxxxxxx, F_Bguion, F_biblio, F_b12345, F_blargo}

InitDet ==
    /\ dTextos \in UNION {[1..k -> Fragmentos] : k \in 0..MaxTextos}
    /\ dPosibles = <<>> /\ dResultado = None /\ dPc = "inicio"
    /\ AppIdle /\ NormIdle /\ ValIdle

Detectar ==
    /\ dPc = "inicio"
    /\ dPosibles' = posibles_codigos(dTextos)
    /\ dResultado' = detectar_codigos(dTextos)
    /\ dPc' = "fin"
    /\ UNCHANGED <<dTextos, appVars, normVars, valVars>>

NextDet == Detectar
SpecDet == InitDet /\ [][NextDet]_vars

-----------------------------------------------------------------------------
(* The inventories, photos and typed codes of the sessions explored *)

\* 'B100000'
K1 == <<"B","1","0","0","0","0","0">>
\* 'B200000'
K2 == <<"B","2","0","0","0","0","0">>
\* 'B300000'
K3 == <<"B","3","0","0","0","0","0">>
\* 'b200000'
k2_minuscula == <<"b","2","0","0","0","0","0">>
\* 'B300000 '
K3_espacio == <<"B","3","0","0","0","0","0"," ">>
\* 'b-200 000'
F_K2 == <<"b","-","2","0","0"," ","0","0","0">>
\* 'b200000'
M_k2 == <<"b","2","0","0","0","0","0">>
\* ' B300000'
M_K3 == <<" ","B","3","0","0","0","0","0">>
\* 'B123'
M_corto == <<"B","1","2","3">>

\* the column 'codigo' of the inventories the sessions start from: K1 is canonical,
\* k2_minuscula was typed in lower case, K3_espacio has a trailing space
Inventarios == {<<>>, <<K1>>, <<K1, k2_minuscula, K3_espacio>>}

\* the OCR output of a photo: of the label K2 with the letterhead, of K3, of K2 read
\* with a longer noisy token as well, of no label
FotoK2   == <<F_BibUni, F_K2>>
FotoK3   == <<K3>>
FotoLaxa == <<F_bxxxxxxx, K2>>
FotoNada == <<F_junk>>
Fotos    == {FotoK2, FotoK3, FotoLaxa, FotoNada}
\* the photos taken with the camera, and those uploaded in batches
FotosCamara == {FotoK2, FotoLaxa, FotoNada}
FotosLote   == {FotoK2, FotoK3}
Lotes    == UNION {[1..k -> FotosLote] : k \in 0..MaxLote}
\* lines 177-178 and 202-203: reader.readtext(...) gives the photo's fragments and
\* detectar_codigos its code (the value is the same every time a photo is read)
leer_codigo == [f \in Fotos |-> detectar_codigos(f)]

Manuales == {<<>>, M_k2, M_K3, M_corto}

-----------------------------------------------------------------------------
(* validar_codigo and actualizar_excel *)

COLOR_VERDE  == "00FF00"
COLOR_MORADO == "800080"
SinColor     == "sin relleno"

\* a cell of column A of the sheet
Celda(codigo, fill, bold) == [codigo |-> codigo, fill |-> fill, bold |-> bold]
CeldaVacia == Celda(<<>>, SinColor, FALSE)

\* pd.read_excel(EXCEL_PATH)['codigo']: row 1 of the sheet is the header
read_excel(hoja) == [i \in 1..Len(hoja) |-> hoja[i].codigo]

\* df['codigo'].values contains codigo (exact comparison of the strings)
\* the membership test that finds no code
en_df_nunca(codigo, df) == FALSE

en_df(codigo, df) == \E i \in 1..Len(df) : df[i] = codigo

\* the outcomes of validar_codigo: (True, ""), (False, format), (False, duplicate)
VAL_OK        == "ok"
VAL_FORMATO   == "Formato invalido (debe ser B seguido de 6-8 digitos)."
VAL_DUPLICADO == "Codigo ya existe."
SIN_CODIGO    == "No se encontro un codigo valido."

\* the duplicate test made case-insensitive
validar_codigo_sin_caja(codigo, df) ==
    IF ~ fullmatch("B", codigo) THEN VAL_FORMATO
    ELSE IF \E i \in 1..Len(df) : upper(df[i]) = codigo THEN VAL_DUPLICADO
    ELSE VAL_OK

validar_codigo(codigo, df) ==
    IF ~ fullmatch("B", codigo) THEN VAL_FORMATO
    ELSE IF en_df(codigo, df) THEN VAL_DUPLICADO
    ELSE VAL_OK

\* line 163: {str(row[codigo_columna]).strip(): idx + 2 for idx, row in df.iterrows()};
\* a key met again replaces the earlier entry; idx is zero-based
codigo_a_fila(df) ==
    [c \in {strip(df[i]) : i \in 1..Len(df)} |->
        1 + CHOOSE i \in 1..Len(df) :
                /\ strip(df[i]) = c
                /\ \A j \in (i + 1)..Len(df) : strip(df[j]) # c]

\* the highlight written to a new row at the end instead of the row found
marcar_al_final(hoja, fila, fill) ==
    Append(hoja, [codigo |-> hoja[fila - 1].codigo, fill |-> fill, bold |-> TRUE])

\* sheet[f"A{fila}"].fill = fill; .font = Font(bold=True): the cell is created when
\* the sheet has no such row yet
marcar(hoja, fila, fill) ==
    LET larga == hoja \o [k \in 1..(fila - 1 - Len(hoja)) |-> CeldaVacia]
    IN  [larga EXCEPT ![fila - 1] = Celda(@.codigo, fill, TRUE)]

\* the new code written above the rows of the sheet instead of below them
nueva_fila_arriba(hoja, codigo) == <<Celda(codigo, COLOR_MORADO, TRUE)>> \o hoja

\* lines 78-81: nueva_fila = sheet.max_row + 1; the code, purple and bold, in A{nueva_fila}
nueva_fila(hoja, codigo) == Append(hoja, Celda(codigo, COLOR_MORADO, TRUE))

\* the results of actualizar_excel
RES_MARCADO  == "encontrado y marcado en verde"
RES_AGREGADO  == "Codigo nuevo agregado"
RES_PENDIENTE == "Pendiente de confirmacion."
RES_ERROR     == "Error al actualizar Excel"
RES_NADA      == "-"

\* st.button(label): a second button with the same label in one run raises
\* DuplicateWidgetID; otherwise the button is created and is True in the run that
\* its click started
boton_duplicado(codigo, bts) == codigo \in bts
boton_pulsado(codigo, clic) == clic.tipo = "confirmar" /\ clic.codigo = codigo

\* e: [hoja, sdf, botones, ...] the workbook, st.session_state['df'] and the buttons
\* of this run; df and indice are the run's df and codigo_a_fila
actualizar_excel(codigo, e, indice, df, clic) ==
    IF codigo \in DOMAIN indice
    THEN [e |-> [e EXCEPT !.hoja = marcar(e.hoja, indice[codigo], COLOR_VERDE)],
          resultado |-> RES_MARCADO, fila |-> indice[codigo]]
    ELSE IF boton_duplicado(codigo, e.botones)
    THEN [e |-> e, resultado |-> RES_ERROR, fila |-> 0]
    ELSE IF boton_pulsado(codigo, clic)
    THEN [e |-> [e EXCEPT !.hoja = nueva_fila(e.hoja, codigo),
                          !.sdf = Append(df, codigo),
                          !.botones = @ \cup {codigo}],
          resultado |-> RES_AGREGADO, fila |-> Len(e.hoja) + 2]
    ELSE [e |-> [e EXCEPT !.botones = @ \cup {codigo}],
          resultado |-> RES_PENDIENTE, fila |-> 0]

\* lines 188 and 224: "agregado" in resultado or "marcado" in resultado
persiste(resultado) == resultado \in {RES_AGREGADO, RES_MARCADO}

\* crear_backup(); the workbook file exists
crear_backup(e) == [e EXCEPT !.backup = <<e.disk>>]

SIN_EXCEPCION == ""
ERROR_GUARDAR == "PermissionError"
\* wb.save(EXCEL_PATH), lines 190, 210 and 226, outside the try of actualizar_excel:
\* when the file cannot be written the exception leaves the script
guardar(e) ==
    IF e.escribible THEN [e EXCEPT !.disk = e.hoja]
    ELSE [e EXCEPT !.excepcion = ERROR_GUARDAR]

-----------------------------------------------------------------------------
(* One call of validar_codigo(codigo, df) *)

\* 'B123'
V_B123 == <<"B","1","2","3">>
\* 'B12345'
V_B12345 == <<"B","1","2","3","4","5">>
\* 'B123456'
V_B123456 == <<"B","1","2","3","4","5","6">>
\* 'B1234567'
V_B1234567 == <<"B","1","2","3","4","5","6","7">>
\* 'B12345678'
V_B12345678 == <<"B","1","2","3","4","5","6","7","8">>
\* 'B123456789'
V_B123456789 == <<"B","1","2","3","4","5","6","7","8","9">>
\* 'A1234567'
V_A1234567 == <<"A","1","2","3","4","5","6","7">>
\* 'b1234567'
V_b1234567 == <<"b","1","2","3","4","5","6","7">>
\* 'B12345a7'
V_B12345a7 == <<"B","1","2","3","4","5","a","7">>
\* 'B1234567 '
V_B1234567_esp == <<"B","1","2","3","4","5","6","7"," ">>
\* 'B1234567\n'
V_B1234567_nl == <<"B","1","2","3","4","5","6","7","\n">>
\* 'XB1234567'
V_XB1234567 == <<"X","B","1","2","3","4","5","6","7">>

CodigosVal == {<<>>, V_B123, V_B12345, V_B123456, V_B1234567, V_B12345678, V_B123456789,
               V_A1234567, V_b1234567, V_B12345a7, V_B1234567_esp, V_B1234567_nl, V_XB1234567}
FilasVal   == {V_B123456, V_B1234567, V_b1234567, V_B1234567_esp, V_B12345678}

InitVal ==
    /\ vCodigo \in CodigosVal
    /\ vDf \in UNION {[1..k -> FilasVal] : k \in 0..MaxDf}
    /\ vSalida = "" /\ vPc = "inicio"
    /\ AppIdle /\ NormIdle /\ DetIdle

Validar ==
    /\ vPc = "inicio"
    /\ vSalida' = validar_codigo(vCodigo, vDf)
    /\ vPc' = "fin"
    /\ UNCHANGED <<vCodigo, vDf, appVars, normVars, detVars>>

NextVal == Validar
SpecVal == InitVal /\ [][NextVal]_vars

-----------------------------------------------------------------------------
(* One run of the script *)

MSG_DETECTADO == "Codigo detectado"
MSG_LOTE      == "Batch procesado."

\* lines 183-187 and 219-223: st.warning(mensaje) of a rejection, else st.info(resultado)
mensaje_resultado(valido, resultado) ==
    IF valido # VAL_OK THEN <<valido>> ELSE <<resultado>>

\* what the script shows for one code: the camera section announces the detected code
\* (line 181) and then its outcome, or that no code was found (line 193); the manual
\* section shows the outcome; the loop of the batch section (lines 199-208) shows nothing
mensajes(seccion, codigo, valido, resultado) ==
    IF seccion = "escaneo"
    THEN IF codigo = None THEN <<SIN_CODIGO>>
         ELSE <<MSG_DETECTADO>> \o mensaje_resultado(valido, resultado)
    ELSE IF seccion = "manual" THEN mensaje_resultado(valido, resultado)
    ELSE <<>>

\* a message of the script that is about no single code
avisar(e, texto) == [e EXCEPT !.avisos = Append(@, texto)]

\* the record of pasos: the code, what validar_codigo(codigo, df) and actualizar_excel
\* returned, and the workbook, st.session_state['df'] and the file before and after
Paso(seccion, codigo, valido, r, antes, despues, df, enIndice, clic) ==
    [seccion |-> seccion, codigo |-> codigo, valido |-> valido, df |-> df,
     resultado |-> r.resultado, fila |-> r.fila,
     mensajes |-> mensajes(seccion, codigo, valido, r.resultado),
     enIndice |-> enIndice, confirmado |-> boton_pulsado(codigo, clic),
     hojaAntes |-> antes.hoja, hojaDespues |-> despues.hoja,
     sdfAntes |-> antes.sdf, sdfDespues |-> despues.sdf,
     diskAntes |-> antes.disk, diskDespues |-> despues.disk]

SinLlamada(e) == [e |-> e, resultado |-> RES_NADA, fila |-> 0]

anotar(e, paso) == [e EXCEPT !.pasos = Append(@, paso)]

\* lines 180-193 (camera) and 217-227 (manual): validate, reconcile, persist
procesar(seccion, codigo, e, indice, df, clic) ==
    LET valido == validar_codigo(codigo, df)
        r  == IF valido = VAL_OK THEN actualizar_excel(codigo, e, indice, df, clic)
              ELSE SinLlamada(e)
        g  == guardar(crear_backup(r.e))
        e2 == IF persiste(r.resultado)
              THEN IF g.excepcion = SIN_EXCEPCION THEN [g EXCEPT !.det = @ \cup {codigo}]
                   ELSE g
              ELSE r.e
    IN  anotar(e2, Paso(seccion, codigo, valido, r, e, e2, df, codigo \in DOMAIN indice, clic))

\* lines 173-193
seccion_escaneo(cam, e, indice, df, clic) ==
    IF cam = <<>> THEN e
    ELSE LET codigo_detectado == detectar_codigos(cam[1])
         IN  IF codigo_detectado # None
             THEN procesar("escaneo", codigo_detectado, e, indice, df, clic)
             ELSE anotar(e, Paso("escaneo", None, SIN_CODIGO, SinLlamada(e), e, e, df, FALSE, clic))

\* lines 199-208: the loop over the uploaded images
RECURSIVE bucle_lote(_, _, _, _, _)
bucle_lote(imagenes, e, indice, df, clic) ==
    IF imagenes = <<>> THEN e
    ELSE LET codigo == leer_codigo[Head(imagenes)]
             valido == IF codigo # None THEN validar_codigo(codigo, df) ELSE SIN_CODIGO
             r  == IF valido = VAL_OK THEN actualizar_excel(codigo, e, indice, df, clic)
                   ELSE SinLlamada(e)
             e2 == IF valido = VAL_OK THEN [r.e EXCEPT !.det = @ \cup {codigo}] ELSE r.e
             e3 == anotar(e2, Paso("lote", codigo, valido, r, e, e2, df,
                                   codigo \in DOMAIN indice, clic))
         IN  bucle_lote(Tail(imagenes), e3, indice, df, clic)

\* lines 198-211
seccion_lote(imagenes, e, indice, df, clic) ==
    IF imagenes = <<>> \/ e.excepcion # SIN_EXCEPCION THEN e
    ELSE LET g == guardar(crear_backup(bucle_lote(imagenes, e, indice, df, clic)))
         IN  IF g.excepcion = SIN_EXCEPCION THEN avisar(g, MSG_LOTE) ELSE g

\* lines 216-227
seccion_manual(texto, e, indice, df, clic) ==
    IF texto = <<>> \/ e.excepcion # SIN_EXCEPCION THEN e
    ELSE procesar("manual", upper(strip(texto)), e, indice, df, clic)

\* lines 126-130 and 143-148: the sidebar button, then the workbook and the dataset
cargar(clic) ==
    LET b == IF clic.tipo = "backup" THEN <<disk>> ELSE backup
    IN  [hoja |-> disk, disk |-> disk, backup |-> b,
         sdf |-> IF cargado THEN sdf ELSE read_excel(disk),
         botones |-> {}, det |-> codigos_detectados, pasos |-> <<>>, avisos |-> <<>>,
         escribible |-> escribible, excepcion |-> SIN_EXCEPCION]

\* the whole script, top to bottom, with the widgets' values cam, lot, man: df and
\* codigo_a_fila are those of lines 148 and 163 in every section, and a section runs
\* unless an uncaught exception has ended the run
Ejecutar(clic, cam, lot, man) ==
    \E e0 \in {cargar(clic)} :
    \E indice \in {codigo_a_fila(e0.sdf)} :
    \E e1 \in {seccion_escaneo(cam, e0, indice, e0.sdf, clic)} :
    \E e2 \in {seccion_lote(lot, e1, indice, e0.sdf, clic)} :
    \E e \in {seccion_manual(man, e2, indice, e0.sdf, clic)} :
        /\ disk' = e.disk
        /\ backup' = e.backup
        /\ cargado' = TRUE
        /\ sdf' = e.sdf
        /\ botones' = e.botones
        /\ codigos_detectados' = e.det
        /\ pasos' = e.pasos
        /\ avisos' = e.avisos
        /\ excepcion' = e.excepcion
        /\ camara' = cam
        /\ lote' = lot
        /\ manual' = man
        /\ UNCHANGED <<escribible, normVars, detVars, valVars>>

-----------------------------------------------------------------------------
(* The session: the inventory, what the user photographs, uploads and types *)

NoClic == [tipo |-> "ninguno", codigo |-> None]

\* the session starts (lines 109-112) with inventario.xlsx in place: without the file
\* the script stops at line 140 before any of the sections
Init ==
    /\ disk \in {[i \in 1..Len(inv) |-> Celda(inv[i], SinColor, FALSE)] : inv \in Inventarios}
    /\ backup = <<>>
    /\ cargado = FALSE
    /\ sdf = <<>>
    /\ camara = <<>> /\ lote = <<>> /\ manual = <<>>
    /\ botones = {}
    /\ codigos_detectados = {}
    /\ pasos = <<>>
    /\ avisos = <<>>
    /\ escribible = TRUE
    /\ excepcion = SIN_EXCEPCION
    /\ NormIdle /\ DetIdle /\ ValIdle

\* the user takes a photo (st.camera_input) and the script runs
TomarFoto == \E f \in FotosCamara : Ejecutar(NoClic, <<f>>, lote, manual)
\* the user clears the photo
QuitarFoto == camara # <<>> /\ Ejecutar(NoClic, <<>>, lote, manual)
\* the user uploads, replaces or removes the images of the batch
SubirLote == \E l \in Lotes : l # lote /\ Ejecutar(NoClic, camara, l, manual)
\* the user types a code, or clears the text input
EscribirManual == \E m \in Manuales : m # manual /\ Ejecutar(NoClic, camara, lote, m)
\* the user clicks "Confirmar agregar codigo nuevo: c", a button of the last run
Confirmar ==
    \E c \in botones : Ejecutar([tipo |-> "confirmar", codigo |-> c], camara, lote, manual)
\* the user clicks "Crear Backup Manual"
BackupManual == Ejecutar([tipo |-> "backup", codigo |-> None], camara, lote, manual)
\* any other interaction (the search box) runs the script again
Rerun == Ejecutar(NoClic, camara, lote, manual)

Next ==
    \/ TomarFoto \/ QuitarFoto \/ SubirLote \/ EscribirManual
    \/ Confirmar \/ BackupManual \/ Rerun

Spec == Init /\ [][Next]_vars

\* another program (Excel) opens inventario.xlsx and keeps it locked
Bloquear ==
    /\ escribible
    /\ escribible' = FALSE
    /\ UNCHANGED <<disk, backup, cargado, sdf, camara, lote, manual, botones,
                   codigos_detectados, pasos, avisos, excepcion,
                   normVars, detVars, valVars>>

NextFallo == Next \/ Bloquear

\* the session with a file that stops being writable at some point
SpecFallo == Init /\ [][NextFallo]_vars

-----------------------------------------------------------------------------
(* Properties *)

PasosIdx == 1..Len(pasos)
\* actualizar_excel was called for the step
Reconciliado(p) == p.valido = VAL_OK
\* two rows hold the same code after upper-casing
Repetido(codigos) ==
    \E i, j \in 1..Len(codigos) : i # j /\ upper(codigos[i]) = upper(codigos[j])
\* the letter, then 6 to 8 digits, and nothing else
LetraYDigitos(letra, c) ==
    \E n \in 6..8 :
        /\ Len(c) = n + 1
        /\ c[1] = letra
        /\ \A k \in 1..n : c[k + 1] \in {"0","1","2","3","4","5","6","7","8","9"}
\* starts with b and has at least 7 characters
FormaLaxa(tok) == Len(tok) >= 7 /\ tok[1] = "b"
\* the normalised fragment contains one of the excluded phrases
Excluido(t) ==
    \E k \in 1..Len(frases_prohibidas) : contiene(limpiar(t), frases_prohibidas[k])
\* the fragments of dTextos that are candidates
Candidatas ==
    {i \in 1..Len(dTextos) :
        /\ ~ Excluido(dTextos[i])
        /\ (LetraYDigitos("b", limpiar(dTextos[i])) \/ FormaLaxa(limpiar(dTextos[i])))}

\* C1: starting from an inventory with pairwise distinct codes, no two rows of the
\* session dataset and no two rows of the sheet hold the same code after upper-casing.
C1_CodigosUnicos ==
    /\ ~ Repetido(read_excel(disk))
    /\ cargado => ~ Repetido(sdf)

\* C2: for a validated code that is not in the inventory, while the confirmation is
\* not given actualizar_excel answers 'pending confirmation' and leaves the dataset
\* and the sheet as they were.
C2_SinConfirmacion ==
    \A i \in PasosIdx :
        (Reconciliado(pasos[i]) /\ ~ pasos[i].enIndice /\ ~ pasos[i].confirmado)
        => /\ pasos[i].resultado = RES_PENDIENTE
           /\ pasos[i].hojaDespues = pasos[i].hojaAntes
           /\ pasos[i].sdfDespues = pasos[i].sdfAntes

\* C3: the lookup reflects the dataset as of the call: a code that the session dataset
\* holds when it is scanned or entered (it was appended before) gets the 'matched'
\* outcome for its row, and nothing is appended.
C3_BusquedaAlDia ==
    \A i \in PasosIdx :
        (pasos[i].codigo # None /\ en_df(pasos[i].codigo, pasos[i].sdfAntes))
        => /\ pasos[i].resultado = RES_MARCADO
           /\ pasos[i].fila \in 2..(Len(pasos[i].sdfAntes) + 1)
           /\ pasos[i].sdfAntes[pasos[i].fila - 1] = pasos[i].codigo
           /\ Len(pasos[i].hojaDespues) = Len(pasos[i].hojaAntes)
           /\ pasos[i].sdfDespues = pasos[i].sdfAntes

\* C4: in one batch, when an earlier image added a new code, a later image of the
\* same code is rejected by validar_codigo as a duplicate and is not reconciled.
C4_LoteContraDatasetActual ==
    \A i, j \in PasosIdx :
        (/\ i < j
         /\ pasos[i].seccion = "lote" /\ pasos[j].seccion = "lote"
         /\ pasos[i].codigo = pasos[j].codigo
         /\ pasos[i].resultado = RES_AGREGADO)
        => /\ pasos[j].valido = VAL_DUPLICADO
           /\ pasos[j].resultado = RES_NADA

\* q reconciles again the code that p matched
C5_OtraVez(p, q) ==
    (p.resultado = RES_MARCADO /\ Reconciliado(q) /\ q.codigo = p.codigo)
    => /\ q.resultado = RES_MARCADO
       /\ q.fila = p.fila
       /\ q.hojaDespues[q.fila - 1] = p.hojaDespues[p.fila - 1]
       /\ q.hojaDespues[q.fila - 1].fill = COLOR_VERDE
       /\ q.hojaDespues[q.fila - 1].bold
       /\ Len(q.hojaDespues) = Len(q.hojaAntes)
       /\ Len(p.hojaDespues) = Len(p.hojaAntes)
       /\ q.sdfDespues = q.sdfAntes
\* the steps of the next run, against each other and against those of this run
C5_Paso ==
    /\ \A i, j \in 1..Len(pasos') : i < j => C5_OtraVez(pasos'[i], pasos'[j])
    /\ \A i \in PasosIdx : \A j \in 1..Len(pasos') : C5_OtraVez(pasos[i], pasos'[j])
\* C5: matching an existing code is idempotent: a second reconciliation of a code that
\* was matched, in the same run or in the next one, is matched again at the same row,
\* leaves the cell as the first match left it (green, bold) and adds no row to the
\* sheet or to the dataset.
C5_MarcarIdempotente == [][C5_Paso]_vars

\* a code was matched twice in one run
C5_Testigo ==
    \E i, j \in PasosIdx :
        /\ i < j
        /\ pasos[i].codigo = pasos[j].codigo
        /\ pasos[i].resultado = RES_MARCADO
        /\ pasos[j].resultado = RES_MARCADO

\* C6: validar_codigo fails with the format reason exactly when codigo is not 'B' and
\* 6 to 8 digits; otherwise with the duplicate reason exactly when codigo equals a
\* code of the dataset; otherwise it succeeds.
C6_Validar ==
    vPc = "fin" =>
        /\ (vSalida = VAL_FORMATO) <=> ~ LetraYDigitos("B", vCodigo)
        /\ (vSalida = VAL_DUPLICADO) <=>
               (LetraYDigitos("B", vCodigo) /\ \E i \in 1..Len(vDf) : vDf[i] = vCodigo)
        /\ (vSalida = VAL_OK) <=>
               (LetraYDigitos("B", vCodigo) /\ \A i \in 1..Len(vDf) : vDf[i] # vCodigo)

\* a well-formed code was accepted although the dataset holds it in lower case
C6_Testigo ==
    /\ vPc = "fin"
    /\ vSalida = VAL_OK
    /\ \E i \in 1..Len(vDf) : vDf[i] # vCodigo /\ upper(vDf[i]) = vCodigo

\* C7: detectar_codigos returns None when no fragment is a candidate; otherwise the
\* upper-cased candidate of greatest length, the first of them in the input order.
C7_ElMasLargo ==
    dPc = "fin" =>
        IF Candidatas = {} THEN dResultado = None
        ELSE \E i \in Candidatas :
                /\ dResultado = upper(limpiar(dTextos[i]))
                /\ \A j \in Candidatas :
                      /\ Len(limpiar(dTextos[j])) <= Len(limpiar(dTextos[i]))
                      /\ j < i => Len(limpiar(dTextos[j])) < Len(limpiar(dTextos[i]))

\* two different candidates share the greatest length and the first was returned
C7_Testigo ==
    /\ dPc = "fin"
    /\ \E i, j \in Candidatas :
          /\ i < j
          /\ limpiar(dTextos[i]) # limpiar(dTextos[j])
          /\ Len(limpiar(dTextos[i])) = Len(limpiar(dTextos[j]))
          /\ \A k \in Candidatas : Len(limpiar(dTextos[k])) <= Len(limpiar(dTextos[i]))
          /\ dResultado = upper(limpiar(dTextos[i]))

\* C8: a normalised, non-excluded token is a candidate iff it is 'b' and 6 to 8 digits
\* or it starts with 'b' and has length at least 7; with no strict match among the
\* fragments, a token of the lenient form is the result.
C8_Candidatos ==
    dPc = "fin" =>
        /\ \A i \in 1..Len(dTextos) :
              ~ Excluido(dTextos[i]) =>
                  ((\E k \in 1..Len(dPosibles) : dPosibles[k] = upper(limpiar(dTextos[i])))
                   <=> (\/ LetraYDigitos("b", limpiar(dTextos[i]))
                        \/ FormaLaxa(limpiar(dTextos[i]))))
        /\ (/\ \A i \in 1..Len(dTextos) :
                  Excluido(dTextos[i]) \/ ~ LetraYDigitos("b", limpiar(dTextos[i]))
            /\ \E i \in 1..Len(dTextos) :
                  ~ Excluido(dTextos[i]) /\ FormaLaxa(limpiar(dTextos[i])))
           => \E i \in 1..Len(dTextos) :
                  /\ ~ Excluido(dTextos[i])
                  /\ FormaLaxa(limpiar(dTextos[i]))
                  /\ dResultado = upper(limpiar(dTextos[i]))

\* no fragment is a strict match and a lenient token was returned
C8_Testigo ==
    /\ dPc = "fin"
    /\ dResultado # None
    /\ ~ LetraYDigitos("B", dResultado)
    /\ \A i \in 1..Len(dTextos) : ~ LetraYDigitos("b", limpiar(dTextos[i]))

\* C9: detectar_codigos never returns a token that contains an excluded phrase; when
\* every fragment contains one the result is None; the excluded fragments do not
\* change which of the other fragments is returned.
C9_Excluidos ==
    dPc = "fin" =>
        /\ \A i \in 1..Len(dTextos) :
              Excluido(dTextos[i]) => dResultado # upper(limpiar(dTextos[i]))
        /\ (\A i \in 1..Len(dTextos) : Excluido(dTextos[i])) => dResultado = None
        /\ dResultado = detectar_codigos(SelectSeq(dTextos, LAMBDA t : ~ Excluido(t)))

\* an excluded fragment that starts with 'b' is the longest, and another one is returned
C9_Testigo ==
    /\ dPc = "fin"
    /\ dResultado # None
    /\ \E i \in 1..Len(dTextos) :
          /\ Excluido(dTextos[i])
          /\ limpiar(dTextos[i])[1] = "b"
          /\ \A j \in 1..Len(dTextos) : Len(limpiar(dTextos[j])) <= Len(limpiar(dTextos[i]))

\* C10: the normalised string has no whitespace character and no hyphen, is in lower
\* case, and normalising it again gives the same string.
C10_Normalizado ==
    nPc = "dos" =>
        /\ \A i \in 1..Len(nSalida) : nSalida[i] \notin {" ", "\t", "\n", "\r", "\f", "-"}
        /\ nSalida = lower(nSalida)
        /\ nSalida2 = nSalida

\* the steps of the run whose outcome is a write to the sheet (a highlight or an append)
Mutaciones == {i \in PasosIdx : persiste(pasos[i].resultado)}
\* the last of them
UltimaMutacion == CHOOSE i \in Mutaciones : \A j \in Mutaciones : j <= i

\* C11: in a run with a successful mutation the workbook is saved after it (the file
\* holds the sheet with every mutation of the run), and the backup holds the file as
\* it was just before the latest persisted mutation.
C11_BackupPrevio ==
    Mutaciones # {} =>
        /\ disk = pasos[Len(pasos)].hojaDespues
        /\ backup = <<pasos[UltimaMutacion].diskAntes>>

\* the messages of a step that state its outcome (all but the notice of the detection)
DeResultado(p) == SelectSeq(p.mensajes, LAMBDA m : m # MSG_DETECTADO)
\* the outcome of a step: the rejection of validar_codigo, else the result of
\* actualizar_excel
Desenlace(p) == IF p.valido = VAL_OK THEN p.resultado ELSE p.valido

\* C12: every code processed in the camera section, in the manual section and for
\* each image of a batch, whatever its outcome, gets exactly one message that states
\* that outcome.
C12_UnMensaje ==
    \A i \in PasosIdx : DeResultado(pasos[i]) = <<Desenlace(pasos[i])>>

\* C13: a failure of a write to the file, the save of the workbook included, is caught:
\* no run of the script ends with an exception that left the scan, batch or manual
\* section uncaught.
C13_FalloAtrapado == excepcion = SIN_EXCEPCION

\* the same string in two rows
Duplicado(codigos) == \E i, j \in 1..Len(codigos) : i # j /\ codigos[i] = codigos[j]

Rechazado(p) == p.valido \in {VAL_FORMATO, VAL_DUPLICADO}
\* a row of the session dataset holds the code of the step when it is processed
YaRegistrado(p) == \E k \in 1..Len(p.sdfAntes) : p.sdfAntes[k] = p.codigo
\* the step left the dataset, the sheet and the file as they were
SinEfecto(p) ==
    /\ p.sdfDespues = p.sdfAntes
    /\ p.hojaDespues = p.hojaAntes
    /\ p.diskDespues = p.diskAntes

\* C15: for a code that validar_codigo rejects, in the camera, batch and manual
\* sections, actualizar_excel is not called and the dataset, the sheet and the file
\* stay as they were; processing a code that a row of the dataset already holds
\* changes nothing, and neither does a whole run in which every code is rejected.
C15_RechazoSinEfecto ==
    /\ \A i \in PasosIdx :
          /\ Rechazado(pasos[i]) => (pasos[i].resultado = RES_NADA /\ SinEfecto(pasos[i]))
          /\ YaRegistrado(pasos[i]) => SinEfecto(pasos[i])
    /\ (pasos # <<>> /\ \A i \in PasosIdx : Rechazado(pasos[i]))
       => /\ disk = pasos[1].diskAntes
          /\ sdf = pasos[1].sdfAntes
          /\ read_excel(disk) = sdf

\* a run whose codes are all rejected: one in the batch as a duplicate, one for its
\* format
C15_Testigo ==
    /\ \A i \in PasosIdx : Rechazado(pasos[i])
    /\ \E i, j \in PasosIdx :
          /\ pasos[i].seccion = "lote"
          /\ pasos[i].valido = VAL_DUPLICADO
          /\ pasos[j].valido = VAL_FORMATO
    /\ disk # <<>>

\* C16: every code appended to the dataset and to the sheet, in the camera, batch or
\* manual section and whatever detectar_codigos returned, is an upper-case 'B'
\* followed by 6 to 8 digits: the code of every step with the 'added' outcome, and
\* the code of every appended (purple) row of the file and its row of the dataset.
C16_AgregadoCanonico ==
    /\ \A i \in PasosIdx :
          pasos[i].resultado = RES_AGREGADO =>
              /\ LetraYDigitos("B", pasos[i].codigo)
              /\ pasos[i].sdfDespues[Len(pasos[i].sdfDespues)] = pasos[i].codigo
              /\ pasos[i].hojaDespues[Len(pasos[i].hojaDespues)].codigo = pasos[i].codigo
    /\ \A k \in 1..Len(disk) :
          disk[k].fill = COLOR_MORADO =>
              /\ LetraYDigitos("B", disk[k].codigo)
              /\ sdf[k] = disk[k].codigo

\* in one run the camera read a lenient candidate that is longer than the label and
\* is not a well-formed code, and a code typed in lower case was added
C16_Testigo ==
    \E i, j \in PasosIdx :
        /\ pasos[i].seccion = "escaneo"
        /\ ~ LetraYDigitos("B", pasos[i].codigo)
        /\ Len(pasos[i].codigo) > Len(K2)
        /\ pasos[j].seccion = "manual"
        /\ pasos[j].resultado = RES_AGREGADO
        /\ manual # pasos[j].codigo

\* the codes with a confirmation request in a run, and the codes a run added
PendientesDe(ps) == {ps[i].codigo : i \in {k \in 1..Len(ps) : ps[k].resultado = RES_PENDIENTE}}
AgregadosDe(ps) == {ps[i].codigo : i \in {k \in 1..Len(ps) : ps[k].resultado = RES_AGREGADO}}
\* a code that is pending stays pending in the next run unless that run adds it, and
\* no run holds two requests for one code
C17_Paso ==
    /\ \A c \in PendientesDe(pasos) :
          c \in PendientesDe(pasos') \cup AgregadosDe(pasos')
    /\ \A i, j \in 1..Len(pasos') :
          (i < j /\ pasos'[i].codigo = pasos'[j].codigo)
          => ~ (pasos'[i].resultado = RES_PENDIENTE /\ pasos'[j].resultado = RES_PENDIENTE)
\* C17: the pending confirmation of a code is kept from one run to the next until the
\* code is confirmed, whatever else the user does (other codes have their own
\* requests), and scanning the same unconfirmed code again makes no second request.
C17_PendientePersiste == [][C17_Paso]_vars

====
